---- MODULE Spec2Model ----
(***************************************************************************)
(* The turn-detection state machine of src/src/utils/TurnAnalyzer.ts       *)
(* (class TurnFSM), the scoring rubric it calls and the TurnAnalyzer that  *)
(* smooths the angles of a pose and feeds the machine.  Angles are         *)
(* integers (degrees); an optional value (T | null) is a sequence of       *)
(* length 0 or 1.  The caller of a TurnAnalyzer gives it only poses whose  *)
(* smoothed angles are whole numbers, so that the smoothing is exact.      *)
(***************************************************************************)
EXTENDS Integers, Sequences, FiniteSets

\* -------- CONFIG (TurnAnalyzer.ts 3-14) --------
\* FPS_SMOOTH = 0.9, in tenths
FPS_SMOOTH_TENTHS == 9
MIN_DET_FRAMES == 6
COOLDOWN_FRAMES == 12
BT_KNEE_MIN == 70
BT_KNEE_MAX == 100
BT_TORSO_MIN == 20
BT_TORSO_MAX == 40
ROT_MIN == 15
TT_TORSO_UPRIGHT_MAX == 20
KNEE_EXT_DELTA == 15
SMOOTH_STD_MAX == 8
\* capacity of a rolling series (the literal 30 of update)
SERIES_CAP == 30
\* frames waited in TRANSITION (the literal 3 of update)
TRANSITION_FRAMES == 3
\* the "deepest compression" target of the BOTTOM branch (the literal 85.0)
TARGET_KNEE == 85

\* -------- bounds of the model --------
\* update is called in IDLE only while framesInState is below this
MaxIdle == 2
\* update is called in BOTTOM and in TOP only while framesInState is below this
MaxHold == 7
\* the input stream changes its triple at most this many times
MaxChanges == 2

\* -------- optional values --------
None == << >>
Some(x) == << x >>
IsSome(o) == o # << >>
Get(o) == o[1]

Abs(x) == IF x < 0 THEN -x ELSE x
Max(a, b) == IF a >= b THEN a ELSE b

\* -------- SCORING --------
RECURSIVE SumSeq(_)
SumSeq(s) == IF s = << >> THEN 0 ELSE Head(s) + SumSeq(Tail(s))

RECURSIVE SumSq(_)
SumSq(s) == IF s = << >> THEN 0 ELSE Head(s) * Head(s) + SumSq(Tail(s))

\* floor of the square root of n >= 0, by bisection on [lo, hi)
RECURSIVE SqrtBetween(_, _, _)
SqrtBetween(n, lo, hi) ==
  IF hi - lo <= 1 THEN lo
  ELSE LET mid == (lo + hi) \div 2
       IN  IF mid * mid <= n THEN SqrtBetween(n, mid, hi)
           ELSE SqrtBetween(n, lo, mid)

\* 46340 is the largest root whose square is a 32-bit integer
ISqrt(n) == SqrtBetween(n, 0, IF n < 46340 THEN n + 1 ELSE 46341)

\* a root to some binary digits: n * 4^digits = r * r + rem, 0 <= rem <= 2 * r
Root(n) == [r |-> ISqrt(n), rem |-> n - ISqrt(n) * ISqrt(n)]

\* one more binary digit of the root
Finer(x) ==
  IF 4 * x.rem >= 4 * x.r + 1
  THEN [r |-> 2 * x.r + 1, rem |-> 4 * x.rem - (4 * x.r + 1)]
  ELSE [r |-> 2 * x.r, rem |-> 4 * x.rem]

\* whether sqrt(a) + sqrt(b) + sqrt(c) <= t, for roots x, y, z of a, b, c to
\* the same number of digits and t scaled alike: the floors' sum is within 3
\* of the scaled sum, and equals it when the three roots are exact
RECURSIVE RootSumLeq(_, _, _, _)
RootSumLeq(x, y, z, t) ==
  LET low == x.r + y.r + z.r
  IN  IF x.rem = 0 /\ y.rem = 0 /\ z.rem = 0 THEN low <= t
      ELSE IF low + 3 <= t THEN TRUE
      ELSE IF low >= t THEN FALSE
      ELSE RootSumLeq(Finer(x), Finer(y), Finer(z), 2 * t)

\* stdOr0(arr) = sqrt(Dev(arr)) / Len(arr) for Len(arr) >= 5, else 0:
\* Dev(arr) = n * sum(x^2) - (sum x)^2 = n^2 * (population variance)
Dev(arr) ==
  IF Len(arr) >= 5 THEN Len(arr) * SumSq(arr) - SumSeq(arr) * SumSeq(arr)
  ELSE 0

\* smoothProxy <= bound, where smoothProxy = (std + std + std) / 3.0 over the
\* three series of one phase, which have one length
ProxyLeq(kneeSeries, torsoSeries, rotSeries, bound) ==
  RootSumLeq(Root(Dev(kneeSeries)), Root(Dev(torsoSeries)),
             Root(Dev(rotSeries)), 3 * Len(kneeSeries) * bound)

SmoothPts(kneeSeries, torsoSeries, rotSeries) ==
  IF ProxyLeq(kneeSeries, torsoSeries, rotSeries, SMOOTH_STD_MAX) THEN 2
  ELSE IF ProxyLeq(kneeSeries, torsoSeries, rotSeries, (SMOOTH_STD_MAX * 3) \div 2)
  THEN 1
  ELSE 0

\* mutation of CompPts: the best band is open at its lower end
CompPtsOpenLow(knee) ==
  IF BT_KNEE_MIN < knee /\ knee <= BT_KNEE_MAX THEN 3
  ELSE IF (60 <= knee /\ knee <= 70) \/ (100 < knee /\ knee <= 110) THEN 2
  ELSE IF (50 <= knee /\ knee < 60) \/ (110 < knee /\ knee <= 120) THEN 1
  ELSE 0

CompPts(knee) ==
  IF BT_KNEE_MIN <= knee /\ knee <= BT_KNEE_MAX THEN 3
  ELSE IF (60 <= knee /\ knee < 70) \/ (100 < knee /\ knee <= 110) THEN 2
  ELSE IF (50 <= knee /\ knee < 60) \/ (110 < knee /\ knee <= 120) THEN 1
  ELSE 0

LeanPts(torso) ==
  IF BT_TORSO_MIN <= torso /\ torso <= BT_TORSO_MAX THEN 3
  ELSE IF (15 <= torso /\ torso < 20) \/ (40 < torso /\ torso <= 50) THEN 2
  ELSE IF (10 <= torso /\ torso < 15) \/ (50 < torso /\ torso <= 60) THEN 1
  ELSE 0

\* mutation of BtRotPts: the points of the top-turn rotation criterion
BtRotPtsAsTop(rot) ==
  IF rot >= ROT_MIN THEN 3 ELSE IF rot >= 10 THEN 2 ELSE IF rot >= 5 THEN 1
  ELSE 0

BtRotPts(rot) == IF rot >= ROT_MIN THEN 2 ELSE IF rot >= 10 THEN 1 ELSE 0

\* [score, detail]; a detail entry is <<points, raw value>>
scoreBottomTurn(knee, torso, rot, kneeSeries, torsoSeries, rotSeries) ==
  LET comp == CompPts(knee)
      lean == LeanPts(torso)
      rotPts == BtRotPts(rot)
      smPts == SmoothPts(kneeSeries, torsoSeries, rotSeries)
  IN  [score |-> comp + lean + rotPts + smPts,
       detail |-> [compression |-> <<comp, knee>>,
                   torso_lean |-> <<lean, torso>>,
                   rotation |-> <<rotPts, rot>>,
                   smoothness_std |-> <<smPts>>]]

ExtPts(extDelta) ==
  IF extDelta >= KNEE_EXT_DELTA THEN 3
  ELSE IF extDelta >= 10 THEN 2
  ELSE IF extDelta >= 5 THEN 1
  ELSE 0

\* mutation of UpPts: the bands are open at their upper ends
UpPtsStrict(torso) ==
  IF torso < TT_TORSO_UPRIGHT_MAX THEN 2
  ELSE IF torso < TT_TORSO_UPRIGHT_MAX + 10 THEN 1
  ELSE 0

UpPts(torso) ==
  IF torso <= TT_TORSO_UPRIGHT_MAX THEN 2
  ELSE IF torso <= TT_TORSO_UPRIGHT_MAX + 10 THEN 1
  ELSE 0

TtRotPts(rot) ==
  IF rot >= ROT_MIN THEN 3
  ELSE IF rot >= 10 THEN 2
  ELSE IF rot >= 5 THEN 1
  ELSE 0

\* kneeBt is optional (number | null)
\* mutation of scoreTopTurn: a null kneeBt counts as a knee of 0
scoreTopTurnFromZero(kneeNow, kneeBt, torso, rot, kneeSeries, torsoSeries, rotSeries) ==
  LET extDelta == IF IsSome(kneeBt) THEN kneeNow - Get(kneeBt) ELSE kneeNow
      extPts == ExtPts(extDelta)
      upPts == UpPts(torso)
      rotPts == TtRotPts(rot)
      smPts == SmoothPts(kneeSeries, torsoSeries, rotSeries)
  IN  [score |-> extPts + upPts + rotPts + smPts,
       detail |-> [extension_delta_vs_bottom |-> <<extPts, extDelta>>,
                   upright_torso |-> <<upPts, torso>>,
                   rotation |-> <<rotPts, rot>>,
                   smoothness_std |-> <<smPts>>]]

scoreTopTurn(kneeNow, kneeBt, torso, rot, kneeSeries, torsoSeries, rotSeries) ==
  LET extDelta == IF IsSome(kneeBt) THEN kneeNow - Get(kneeBt) ELSE 0
      extPts == ExtPts(extDelta)
      upPts == UpPts(torso)
      rotPts == TtRotPts(rot)
      smPts == SmoothPts(kneeSeries, torsoSeries, rotSeries)
  IN  [score |-> extPts + upPts + rotPts + smPts,
       detail |-> [extension_delta_vs_bottom |-> <<extPts, extDelta>>,
                   upright_torso |-> <<upPts, torso>>,
                   rotation |-> <<rotPts, rot>>,
                   smoothness_std |-> <<smPts>>]]

\* -------- STATE MACHINE --------
IDLE == "IDLE"
BOTTOM == "BOTTOM"
TRANSITION == "TRANSITION"
TOP == "TOP"
COOLDOWN == "COOLDOWN"
TurnState == {IDLE, BOTTOM, TRANSITION, TOP, COOLDOWN}

EmptySeries == [knee |-> << >>, torso |-> << >>, rot |-> << >>]

\* mutation of PushCapped: the shift comes one entry late
PushCappedLate(arr, x) ==
  LET pushed == Append(arr, x)
  IN  IF Len(pushed) > SERIES_CAP + 1 THEN Tail(pushed) ELSE pushed

\* push, then shift once the length exceeds the capacity
PushCapped(arr, x) ==
  LET pushed == Append(arr, x)
  IN  IF Len(pushed) > SERIES_CAP THEN Tail(pushed) ELSE pushed

PushSeries(series, knee, torso, rot) ==
  [knee |-> PushCapped(series.knee, knee),
   torso |-> PushCapped(series.torso, torso),
   rot |-> PushCapped(series.rot, rot)]

\* a new TurnFSM
NewFSM ==
  [state |-> IDLE,
   framesInState |-> 0,
   bottomSnapshot |-> None,
   bottomSeries |-> EmptySeries,
   topSeries |-> EmptySeries,
   btScore |-> None,
   prevKnee |-> None]

\* mutation of OnsetCond: the upper knee bound made exclusive
OnsetCondStrict(knee, torso, rot) ==
  /\ BT_KNEE_MIN <= knee /\ knee < BT_KNEE_MAX
  /\ BT_TORSO_MIN <= torso /\ torso <= BT_TORSO_MAX
  /\ rot >= ROT_MIN

\* IDLE: compression + lean + rotation -> bottom turn onset
OnsetCond(knee, torso, rot) ==
  /\ BT_KNEE_MIN <= knee /\ knee <= BT_KNEE_MAX
  /\ BT_TORSO_MIN <= torso /\ torso <= BT_TORSO_MAX
  /\ rot >= ROT_MIN

\* this.bottomSnapshot?.knee || knee
PrevBest(snapshot, knee) ==
  IF IsSome(snapshot) /\ Get(snapshot).knee # 0 THEN Get(snapshot).knee
  ELSE knee

\* mutation of Closer: a knee as close as the best one replaces it
CloserOrTie(knee, prevBest) ==
  Abs(knee - TARGET_KNEE) <= Abs(prevBest - TARGET_KNEE)

\* Math.abs(knee - target) < Math.abs(prevBest - target)
Closer(knee, prevBest) ==
  Abs(knee - TARGET_KNEE) < Abs(prevBest - TARGET_KNEE)

\* mutation of TrackSnapshot: the snapshot follows the latest frame
TrackSnapshotLatest(snapshot, knee, torso, rot) == Some([knee |-> knee, torso |-> torso, rot |-> rot])

\* BOTTOM: the snapshot after this frame's "deepest compression" update
TrackSnapshot(snapshot, knee, torso, rot) ==
  IF Closer(knee, PrevBest(snapshot, knee))
  THEN Some([knee |-> knee, torso |-> torso, rot |-> rot])
  ELSE snapshot

Extending(prevKnee, knee) == IsSome(prevKnee) /\ knee - Get(prevKnee) > 3

\* mutation of MoreUpright: a torso exactly 5 under the snapshot's counts
MoreUprightInclusive(torso, snapshot) ==
  \/ torso < Max(BT_TORSO_MIN - 2, 10)
  \/ (IsSome(snapshot) /\ torso <= Get(snapshot).torso - 5)

MoreUpright(torso, snapshot) ==
  \/ torso < Max(BT_TORSO_MIN - 2, 10)
  \/ (IsSome(snapshot) /\ torso < Get(snapshot).torso - 5)

\* mutation of BottomExit: the minimum-frames test left out
BottomExitAnyFrame(prevKnee, knee, torso, snapshot, frames) ==
  /\ Extending(prevKnee, knee)
  /\ MoreUpright(torso, snapshot)
  /\ IsSome(snapshot)

BottomExit(prevKnee, knee, torso, snapshot, frames) ==
  /\ Extending(prevKnee, knee)
  /\ MoreUpright(torso, snapshot)
  /\ frames >= MIN_DET_FRAMES
  /\ IsSome(snapshot)

\* this.bottomSnapshot?.knee || null
\* mutation of KneeBt: the snapshot's knee is never found
KneeBtAbsent(snapshot) == None

KneeBt(snapshot) ==
  IF IsSome(snapshot) /\ Get(snapshot).knee # 0 THEN Some(Get(snapshot).knee)
  ELSE None

\* mutation of TopExit: the extension must exceed 5
TopExitStrictExt(knee, torso, rot, kneeBt, frames) ==
  /\ torso <= TT_TORSO_UPRIGHT_MAX + 10
  /\ rot >= 10
  /\ (kneeBt = None \/ knee - Get(kneeBt) > 5)
  /\ frames >= MIN_DET_FRAMES

TopExit(knee, torso, rot, kneeBt, frames) ==
  /\ torso <= TT_TORSO_UPRIGHT_MAX + 10
  /\ rot >= 10
  /\ (kneeBt = None \/ knee - Get(kneeBt) >= 5)
  /\ frames >= MIN_DET_FRAMES

\* mutation of TransitionDone: one frame late
TransitionDoneLate(frames) == frames > TRANSITION_FRAMES

\* mutation of TransitionDone: one frame early
TransitionDoneEarly(frames) == frames >= TRANSITION_FRAMES - 1

TransitionDone(frames) == frames >= TRANSITION_FRAMES

CooldownDone(frames) == frames >= COOLDOWN_FRAMES

\* mutation of MakeResult: the result carries the live triple as its snapshot
MakeResultLive(f, knee, torso, rot) ==
  LET tt == scoreTopTurn(knee, KneeBt(f.bottomSnapshot), torso, rot,
                         f.topSeries.knee, f.topSeries.torso, f.topSeries.rot)
  IN  [bottom_turn |->
         [score |-> IF IsSome(f.btScore) THEN Get(f.btScore).score ELSE 0,
          detail |-> IF IsSome(f.btScore) THEN Some(Get(f.btScore).detail)
                     ELSE None,
          snapshot |-> [knee |-> knee, torso |-> torso, rot |-> rot],
          frames |-> Len(f.bottomSeries.knee)],
       top_turn |->
         [score |-> tt.score,
          detail |-> tt.detail,
          frames |-> Len(f.topSeries.knee)]]

\* the TurnResult emitted in TOP
MakeResult(f, knee, torso, rot) ==
  LET tt == scoreTopTurn(knee, KneeBt(f.bottomSnapshot), torso, rot,
                         f.topSeries.knee, f.topSeries.torso, f.topSeries.rot)
  IN  [bottom_turn |->
         [score |-> IF IsSome(f.btScore) THEN Get(f.btScore).score ELSE 0,
          detail |-> IF IsSome(f.btScore) THEN Some(Get(f.btScore).detail)
                     ELSE None,
          snapshot |-> IF IsSome(f.bottomSnapshot) THEN Get(f.bottomSnapshot)
                       ELSE [knee |-> 0, torso |-> 0, rot |-> 0],
          frames |-> Len(f.bottomSeries.knee)],
       top_turn |->
         [score |-> tt.score,
          detail |-> tt.detail,
          frames |-> Len(f.topSeries.knee)]]

\* mutation of Appended: TRANSITION frames go to the bottom-phase series too
AppendedBottomInTransition(f, knee, torso, rot) ==
  [f EXCEPT
     !.framesInState = f.framesInState + 1,
     !.bottomSeries = IF f.state \in {IDLE, BOTTOM, TRANSITION}
                      THEN PushSeries(f.bottomSeries, knee, torso, rot)
                      ELSE f.bottomSeries,
     !.topSeries = IF f.state \in {TRANSITION, TOP}
                   THEN PushSeries(f.topSeries, knee, torso, rot)
                   ELSE f.topSeries]

\* mutation of Appended: TRANSITION frames go to no series
AppendedTopOnlyInTop(f, knee, torso, rot) ==
  [f EXCEPT
     !.framesInState = f.framesInState + 1,
     !.bottomSeries = IF f.state \in {IDLE, BOTTOM}
                      THEN PushSeries(f.bottomSeries, knee, torso, rot)
                      ELSE f.bottomSeries,
     !.topSeries = IF f.state \in {TOP}
                   THEN PushSeries(f.topSeries, knee, torso, rot)
                   ELSE f.topSeries]

\* the rolling series after the appends that open update
Appended(f, knee, torso, rot) ==
  [f EXCEPT
     !.framesInState = f.framesInState + 1,
     !.bottomSeries = IF f.state \in {IDLE, BOTTOM}
                      THEN PushSeries(f.bottomSeries, knee, torso, rot)
                      ELSE f.bottomSeries,
     !.topSeries = IF f.state \in {TRANSITION, TOP}
                   THEN PushSeries(f.topSeries, knee, torso, rot)
                   ELSE f.topSeries]

IdleStep(g, knee, torso, rot) ==
  IF OnsetCond(knee, torso, rot)
  THEN [g EXCEPT !.state = BOTTOM,
                 !.framesInState = 1,
                 !.bottomSnapshot =
                    Some([knee |-> knee, torso |-> torso, rot |-> rot])]
  ELSE g

\* mutation of BottomStep: the exit scores the live frame, not the snapshot
BottomStepScoresLive(g, knee, torso, rot) ==
  LET snap == TrackSnapshot(g.bottomSnapshot, knee, torso, rot)
      h == [g EXCEPT !.bottomSnapshot = snap]
  IN  IF BottomExit(g.prevKnee, knee, torso, snap, g.framesInState)
      THEN [h EXCEPT
              !.btScore = Some(scoreBottomTurn(knee, torso, rot,
                                 g.bottomSeries.knee, g.bottomSeries.torso,
                                 g.bottomSeries.rot)),
              !.state = TRANSITION,
              !.framesInState = 0,
              !.topSeries = EmptySeries]
      ELSE h

BottomStep(g, knee, torso, rot) ==
  LET snap == TrackSnapshot(g.bottomSnapshot, knee, torso, rot)
      h == [g EXCEPT !.bottomSnapshot = snap]
  IN  IF BottomExit(g.prevKnee, knee, torso, snap, g.framesInState)
      THEN [h EXCEPT
              !.btScore = Some(scoreBottomTurn(Get(snap).knee, Get(snap).torso,
                                 Get(snap).rot, g.bottomSeries.knee,
                                 g.bottomSeries.torso, g.bottomSeries.rot)),
              !.state = TRANSITION,
              !.framesInState = 0,
              !.topSeries = EmptySeries]
      ELSE h

\* mutation of TransitionStep: the wait ends in COOLDOWN, skipping TOP
TransitionStepSkipsTop(g) ==
  IF TransitionDone(g.framesInState)
  THEN [g EXCEPT !.state = COOLDOWN, !.framesInState = 0]
  ELSE g

TransitionStep(g) ==
  IF TransitionDone(g.framesInState)
  THEN [g EXCEPT !.state = TOP, !.framesInState = 0]
  ELSE g

\* mutation of CooldownStep: the top-phase series is not cleared
CooldownStepKeepsTop(g) ==
  IF CooldownDone(g.framesInState)
  THEN [g EXCEPT !.state = IDLE,
                 !.framesInState = 0,
                 !.bottomSnapshot = None,
                 !.btScore = None,
                 !.bottomSeries = EmptySeries]
  ELSE g

\* mutation of CooldownStep: the stored bottom score is not cleared
CooldownStepKeepsScore(g) ==
  IF CooldownDone(g.framesInState)
  THEN [g EXCEPT !.state = IDLE,
                 !.framesInState = 0,
                 !.bottomSnapshot = None,
                 !.bottomSeries = EmptySeries,
                 !.topSeries = EmptySeries]
  ELSE g

CooldownStep(g) ==
  IF CooldownDone(g.framesInState)
  THEN [g EXCEPT !.state = IDLE,
                 !.framesInState = 0,
                 !.bottomSnapshot = None,
                 !.btScore = None,
                 !.bottomSeries = EmptySeries,
                 !.topSeries = EmptySeries]
  ELSE g

\* TOP: whether this frame finalizes the top turn
Emits(g, knee, torso, rot) ==
  /\ g.state = TOP
  /\ TopExit(knee, torso, rot, KneeBt(g.bottomSnapshot), g.framesInState)

\* mutation of Ret: a result is returned on every TOP frame that meets the
\* angle conditions, whether or not the frame leaves TOP
RetEarly(g, knee, torso, rot) ==
  IF g.state = TOP /\ TopExit(knee, torso, rot, KneeBt(g.bottomSnapshot),
                               MIN_DET_FRAMES)
  THEN Some(MakeResult(g, knee, torso, rot))
  ELSE None

\* what update returns: the TurnResult of an emitting frame, else null
Ret(g, knee, torso, rot) ==
  IF Emits(g, knee, torso, rot) THEN Some(MakeResult(g, knee, torso, rot))
  ELSE None

\* TOP: enter cooldown (update returns here, before prevKnee is assigned)
TopStep(g) == [g EXCEPT !.state = COOLDOWN, !.framesInState = 0]

\* TurnFSM.update: [fsm |-> the object after the call, ret |-> what it returns]
FsmUpdate(f, knee, torso, rot) ==
  LET g == Appended(f, knee, torso, rot)
  IN  IF Emits(g, knee, torso, rot)
      THEN [fsm |-> TopStep(g), ret |-> Ret(g, knee, torso, rot)]
      ELSE LET h == CASE g.state = IDLE -> IdleStep(g, knee, torso, rot)
                      [] g.state = BOTTOM -> BottomStep(g, knee, torso, rot)
                      [] g.state = TRANSITION -> TransitionStep(g)
                      [] g.state = COOLDOWN -> CooldownStep(g)
                      [] OTHER -> g
           IN  [fsm |-> [h EXCEPT !.prevKnee = Some(knee)],
                ret |-> Ret(g, knee, torso, rot)]

\* getState
StateLabel(st) ==
  CASE st = IDLE -> "Idle: looking for Bottom Turn"
    [] st = BOTTOM -> "Bottom Turn: compress/lean/rotate"
    [] st = TRANSITION -> "Transition: rising to lip"
    [] st = TOP -> "Top Turn: extend/redirect"
    [] st = COOLDOWN -> "Cooldown"
    [] OTHER -> "Unknown"

\* -------- the machine and its caller --------
VARIABLES
  state, framesInState, bottomSnapshot, bottomSeries, topSeries, btScore,
  prevKnee,      \* the fields of the TurnFSM
  result,        \* what the most recent update call returned
  arg,           \* the triple the most recent update call was given
  changes,       \* how often the input stream has changed its triple
  age,           \* update calls completed since the current state was entered
  seen,          \* the triples received in BOTTOM, the onset frame first
  exitSnap,      \* the snapshot as the BOTTOM exit left it
  fedBottom,     \* the triples received in IDLE or BOTTOM since the last
                 \* return to IDLE from COOLDOWN, oldest first
  fedTop,        \* the triples received in TRANSITION or TOP since the last
                 \* BOTTOM exit, oldest first
  pos,           \* how many frames of a scripted run have been fed
  returned,      \* the non-null values the calls have returned, in order
  scoreArgs,     \* the arguments of a call of a scoring function
  scoreOut,      \* the function called and what it returned
  emaKnee, emaTorso, emaRot,
                 \* the values v of the three EMA objects of a TurnAnalyzer
  turnResults,   \* the field turnResults of the TurnAnalyzer
  frameRet,      \* what the most recent processFrame call returned
  op,            \* the most recent operation on the TurnAnalyzer
  resetFrom,     \* the machine state and the number of accumulated results
                 \* that the most recent reset found
  twin,          \* a second TurnAnalyzer, constructed anew when the first is
                 \* constructed or reset and given the same poses since
                 \* then, with what its most recent processFrame returned
  pose,          \* the pose the most recent processFrame call was given and
                 \* the raw angles the call took from it
  calls,         \* update calls made on the machine since it was constructed
  emitAt,        \* the values of `calls` at which a call returned a result
  emaV,          \* the field v of an EMA object on its own
  emaIn,         \* the inputs its update calls were given, oldest first
  emaOut,        \* what its update calls returned, oldest first
  runs           \* the analysis runs of the two views, by run

vars == <<state, framesInState, bottomSnapshot, bottomSeries, topSeries,
          btScore, prevKnee, result, arg, changes, age, seen, exitSnap,
          fedBottom, fedTop, pos, returned, scoreArgs, scoreOut,
          emaKnee, emaTorso, emaRot, turnResults, frameRet, op, resetFrom,
          twin, pose, calls, emitAt, emaV, emaIn, emaOut, runs>>

\* the variables that only the calls on a TurnAnalyzer write
analyzerVars ==
  <<emaKnee, emaTorso, emaRot, turnResults, frameRet, op, resetFrom, twin,
    pose>>

\* the variables that only the calls on an EMA on its own write
filterVars == <<emaV, emaIn, emaOut>>

\* the variables that only the analysis runs of the views write
runVars == <<runs>>

\* the variables that only a call of a scoring function on its own writes
scoreVars == <<scoreArgs, scoreOut>>

Fsm ==
  [state |-> state,
   framesInState |-> framesInState,
   bottomSnapshot |-> bottomSnapshot,
   bottomSeries |-> bottomSeries,
   topSeries |-> topSeries,
   btScore |-> btScore,
   prevKnee |-> prevKnee]

Triple(k, t, r) == [knee |-> k, torso |-> t, rot |-> r]

\* The triples a stream may change to, by the state the machine is in; they
\* sit on both sides of every threshold the state's branch of update reads.
InputsIdle ==
  {Triple(85, 30, 20), Triple(70, 40, 15), Triple(100, 20, 15),
   Triple(69, 40, 15), Triple(101, 20, 15), Triple(100, 19, 15),
   Triple(70, 41, 15), Triple(70, 40, 14)}
InputsBottom ==
  {Triple(89, 24, 20), Triple(89, 25, 20), Triple(88, 24, 20),
   Triple(104, 17, 15), Triple(104, 18, 15), Triple(100, 20, 15)}
InputsTransition == {Triple(130, 15, 20)}
InputsTop ==
  {Triple(90, 30, 10), Triple(89, 30, 10), Triple(90, 31, 10),
   Triple(90, 30, 9)}
InputsCooldown == {Triple(85, 30, 20)}

\* a fresh machine that no caller has used
InitMachine ==
  /\ state = NewFSM.state
  /\ framesInState = NewFSM.framesInState
  /\ bottomSnapshot = NewFSM.bottomSnapshot
  /\ bottomSeries = NewFSM.bottomSeries
  /\ topSeries = NewFSM.topSeries
  /\ btScore = NewFSM.btScore
  /\ prevKnee = NewFSM.prevKnee
  /\ result = None
  /\ arg = None
  /\ changes = 0
  /\ age = 0
  /\ seen = << >>
  /\ exitSnap = None
  /\ fedBottom = << >>
  /\ fedTop = << >>
  /\ pos = 0
  /\ returned = << >>
  /\ calls = 0
  /\ emitAt = << >>

\* new TurnAnalyzer()
NewAnalyzer ==
  [emaKnee |-> None, emaTorso |-> None, emaRot |-> None, fsm |-> NewFSM,
   turnResults |-> << >>]

\* The analysis runs: run 1 is handleAnalyze of the upload view, run 2 is
\* extractMatchingFrames of the comparison view on the user's video. Of a run:
\* pc, where it is; n, the frames its loop is to handle; i, the frames it has
\* handled; skipped, those of them in which no pose was detected;
\* detectedTurns, the results its processFrame calls returned; turns, the list
\* of detected turns it ends with; alone, whether no other run has been in its
\* loop at the same time.
RunIds == {1, 2}

NoRun ==
  [pc |-> "none", n |-> 0, i |-> 0, skipped |-> 0, detectedTurns |-> << >>,
   turns |-> None, alone |-> TRUE]

\* no analysis run has begun; `last` is the run that acted last
InitRuns == runs = [by |-> [r \in RunIds |-> NoRun], last |-> 0]

\* a new TurnAnalyzer (its TurnFSM apart)
InitAnalyzer ==
  /\ emaKnee = None
  /\ emaTorso = None
  /\ emaRot = None
  /\ turnResults = << >>
  /\ frameRet = None
  /\ op = "new"
  /\ resetFrom = None
  /\ twin = [an |-> NewAnalyzer, ret |-> None]
  /\ pose = None

\* a new EMA
InitFilter ==
  /\ emaV = None
  /\ emaIn = << >>
  /\ emaOut = << >>

Init ==
  /\ InitMachine
  /\ InitAnalyzer
  /\ InitFilter
  /\ InitRuns
  /\ scoreArgs = None
  /\ scoreOut = None

\* the stream goes on with the triple it had (its first triple is free)
Repeats(in) == IF arg = None THEN TRUE ELSE in = Get(arg)

\* one call fsm.update(in.knee, in.torso, in.rot), and what an observer of
\* the call records
Call(in) ==
  LET out == FsmUpdate(Fsm, in.knee, in.torso, in.rot)
      n == out.fsm
  IN  /\ state' = n.state
      /\ framesInState' = n.framesInState
      /\ bottomSnapshot' = n.bottomSnapshot
      /\ bottomSeries' = n.bottomSeries
      /\ topSeries' = n.topSeries
      /\ btScore' = n.btScore
      /\ prevKnee' = n.prevKnee
      /\ result' = out.ret
      /\ arg' = Some(in)
      /\ age' = IF n.state = state THEN age + 1 ELSE 0
      /\ seen' = CASE n.state = IDLE -> << >>
                   [] state = IDLE /\ n.state = BOTTOM -> << in >>
                   [] state = BOTTOM -> Append(seen, in)
                   [] OTHER -> seen
      /\ exitSnap' = CASE n.state = IDLE -> None
                       [] state = BOTTOM /\ n.state = TRANSITION ->
                            n.bottomSnapshot
                       [] OTHER -> exitSnap
      /\ fedBottom' = CASE state = COOLDOWN /\ n.state = IDLE -> << >>
                        [] state \in {IDLE, BOTTOM} -> Append(fedBottom, in)
                        [] OTHER -> fedBottom
      /\ fedTop' = CASE state = COOLDOWN /\ n.state = IDLE -> << >>
                     [] state = BOTTOM /\ n.state = TRANSITION -> << >>
                     [] state \in {TRANSITION, TOP} -> Append(fedTop, in)
                     [] OTHER -> fedTop
      /\ calls' = calls + 1
      /\ emitAt' = IF IsSome(out.ret) THEN Append(emitAt, calls + 1)
                    ELSE emitAt

\* a call of the bounded caller: the stream changes its triple at most
\* MaxChanges times and no state is held beyond its cap
Update(in) ==
  /\ state \in {IDLE} => framesInState < MaxIdle
  /\ state \in {BOTTOM, TOP} => framesInState < MaxHold
  /\ (IF Repeats(in) THEN TRUE ELSE changes < MaxChanges)
  /\ Call(in)
  /\ changes' = IF Repeats(in) THEN changes ELSE changes + 1
  /\ UNCHANGED <<pos, returned>>
  /\ UNCHANGED scoreVars
  /\ UNCHANGED analyzerVars
  /\ UNCHANGED filterVars
  /\ UNCHANGED runVars

\* the stream's next triple: the one it had, or one of `fresh`
Stream(fresh) == IF arg = None THEN fresh ELSE fresh \cup {Get(arg)}

UpdateIdle == state = IDLE /\ \E in \in Stream(InputsIdle) : Update(in)
UpdateBottom == state = BOTTOM /\ \E in \in Stream(InputsBottom) : Update(in)
UpdateTransition ==
  state = TRANSITION /\ \E in \in Stream(InputsTransition) : Update(in)
UpdateTop == state = TOP /\ \E in \in Stream(InputsTop) : Update(in)
UpdateCooldown ==
  state = COOLDOWN /\ \E in \in Stream(InputsCooldown) : Update(in)

Next ==
  \/ UpdateIdle
  \/ UpdateBottom
  \/ UpdateTransition
  \/ UpdateTop
  \/ UpdateCooldown

Spec == Init /\ [][Next]_vars

\* the last n elements of a sequence (all of it when it is shorter)
LastN(seq, n) ==
  IF Len(seq) <= n THEN seq ELSE SubSeq(seq, Len(seq) - n + 1, Len(seq))

\* the three parallel series that hold a sequence of triples
SeriesOf(triples) ==
  [knee |-> [i \in 1..Len(triples) |-> triples[i].knee],
   torso |-> [i \in 1..Len(triples) |-> triples[i].torso],
   rot |-> [i \in 1..Len(triples) |-> triples[i].rot]]

\* -------- a scripted run of the machine --------
\* the sequence of n copies of x
Rep(n, x) == [i \in 1..n |-> x]

\* what a frame the script leaves free may be
Neutral ==
  {Triple(0, 0, 0), Triple(180, 90, 90), Triple(90, 0, 0), Triple(85, 30, 20),
   Triple(110, 15, 20), Triple(130, 15, 20)}

\* the frames of the run, each as the set of triples it may be: compressed,
\* rising, free, extended
Script ==
  Rep(8, {Triple(85, 30, 20)}) \o Rep(2, {Triple(110, 15, 20)})
    \o Rep(3, Neutral) \o Rep(8, {Triple(130, 15, 20)})

\* the next frame of the script goes to update on a machine that began fresh
Feed ==
  /\ pos < Len(Script)
  /\ \E in \in Script[pos + 1] : Call(in)
  /\ pos' = pos + 1
  /\ returned' = IF IsSome(result') THEN Append(returned, Get(result'))
                  ELSE returned
  /\ UNCHANGED changes
  /\ UNCHANGED scoreVars
  /\ UNCHANGED analyzerVars
  /\ UNCHANGED filterVars
  /\ UNCHANGED runVars

NextScript == Feed

SpecScript == Init /\ [][NextScript]_vars

\* -------- long runs of the machine --------
\* a stream in four stretches, taken in order: out of the onset band,
\* compressed, rising, extended. Here `changes` is the stretch the stream is
\* in and `pos` the frames fed in that stretch; the rotation of the first
\* three stretches goes round seven values, so that neighbours in a history
\* differ. A stretch ends after one of a few lengths, which put the histories
\* just under, at and over their capacity when BOTTOM is left and when the
\* result is emitted.
LongIdle == 40
LongRise == 32
LongTop == 14

LongCap(stretch) ==
  CASE stretch = 1 -> LongIdle
    [] stretch = 2 -> MaxHold
    [] stretch = 3 -> LongRise
    [] OTHER -> LongTop

LongEnds(stretch) ==
  CASE stretch = 1 -> {1, 23, 24, 25, LongIdle}
    [] stretch = 2 -> {5, 6, MaxHold}
    [] stretch = 3 -> {1, 9, 29, 30, LongRise}
    [] OTHER -> {}

LongTriple(stretch, i) ==
  CASE stretch = 1 -> Triple(120, 45, i % 7)
    [] stretch = 2 -> Triple(85, 30, 20 + (i % 7))
    [] stretch = 3 -> Triple(110, 15, i % 7)
    [] OTHER -> Triple(130, 15, 20)

\* the stream goes on in its stretch
FeedSame ==
  /\ changes >= 1
  /\ pos < LongCap(changes)
  /\ Call(LongTriple(changes, pos + 1))
  /\ pos' = pos + 1
  /\ UNCHANGED <<changes, returned>>
  /\ UNCHANGED scoreVars
  /\ UNCHANGED analyzerVars
  /\ UNCHANGED filterVars
  /\ UNCHANGED runVars

\* the stream enters its next stretch
FeedNext ==
  /\ changes < 4
  /\ changes >= 1 => pos \in LongEnds(changes)
  /\ Call(LongTriple(changes + 1, 1))
  /\ pos' = 1
  /\ changes' = changes + 1
  /\ UNCHANGED returned
  /\ UNCHANGED scoreVars
  /\ UNCHANGED analyzerVars
  /\ UNCHANGED filterVars
  /\ UNCHANGED runVars

NextLong == FeedSame \/ FeedNext

SpecLong == Init /\ [][NextLong]_vars

\* -------- two turns in a row --------
\* a stream that holds its triple or changes to the triple that takes the
\* machine on from the state it is in; an IDLE machine may be kept waiting.
\* Here `changes` counts the changes of the stream after its first triple.
MaxPaceChanges == 5

PaceInputs ==
  CASE state = IDLE -> {Triple(85, 30, 20), Triple(120, 45, 20)}
    [] state = BOTTOM -> {Triple(89, 24, 20)}
    [] state = TOP -> {Triple(130, 15, 20)}
    [] state = COOLDOWN -> {Triple(85, 30, 20)}
    [] OTHER -> {}

Pace ==
  \E in \in Stream(PaceInputs) :
    /\ state \in {IDLE} => framesInState < MaxIdle
    /\ state \in {BOTTOM, TOP} => framesInState < MaxHold
    /\ (IF Repeats(in) THEN TRUE ELSE changes < MaxPaceChanges)
    /\ Call(in)
    /\ changes' = IF Repeats(in) THEN changes ELSE changes + 1
    /\ UNCHANGED <<pos, returned>>
    /\ UNCHANGED scoreVars
    /\ UNCHANGED analyzerVars
    /\ UNCHANGED filterVars
    /\ UNCHANGED runVars

NextPace == Pace

SpecPace == Init /\ [][NextPace]_vars

\* -------- the scoring functions called on their own --------
\* the angles the arguments range over: both sides of every band edge of the
\* two rubrics, and knees 4, 5, 9, 10, 14, 15 above the bottom-turn knee
KneeArgs ==
  {49, 50, 59, 60, 69, 70, 85, 89, 90, 94, 95, 99, 100, 101, 110, 111, 120,
   121}
TorsoArgs == {9, 10, 14, 15, 19, 20, 21, 30, 31, 40, 41, 50, 51, 60, 61}
RotArgs == {4, 5, 9, 10, 14, 15}
KneeBtArgs == {None, Some(85)}

\* histories: too short to have a deviation, steady, uneven, rough
SeriesArgs ==
  {SeriesOf(Rep(4, Triple(85, 30, 20))),
   SeriesOf(Rep(5, Triple(85, 30, 20))),
   SeriesOf(Rep(3, Triple(70, 20, 10)) \o Rep(3, Triple(100, 40, 20))),
   SeriesOf(Rep(3, Triple(60, 10, 0)) \o Rep(3, Triple(120, 50, 30)))}

ScoreArgs ==
  [knee : KneeArgs, torso : TorsoArgs, rot : RotArgs,
   kneeBt : KneeBtArgs, series : SeriesArgs]

InitScore ==
  /\ InitMachine
  /\ InitAnalyzer
  /\ InitFilter
  /\ InitRuns
  /\ scoreArgs \in {Some(a) : a \in ScoreArgs}
  /\ scoreOut = None

\* scoreBottomTurn(knee, torso, rot, kneeSeries, torsoSeries, rotSeries)
CallScoreBottomTurn ==
  /\ scoreOut = None
  /\ LET a == Get(scoreArgs)
     IN  scoreOut' =
           Some([fn |-> "scoreBottomTurn",
                 out |-> scoreBottomTurn(a.knee, a.torso, a.rot, a.series.knee,
                                         a.series.torso, a.series.rot)])
  /\ UNCHANGED <<state, framesInState, bottomSnapshot, bottomSeries,
                 topSeries, btScore, prevKnee, result, arg, changes, age,
                 seen, exitSnap, fedBottom, fedTop, pos, returned, scoreArgs,
                 calls, emitAt>>
  /\ UNCHANGED analyzerVars
  /\ UNCHANGED filterVars
  /\ UNCHANGED runVars

\* scoreTopTurn(kneeNow, kneeBt, torso, rot, kneeSeries, torsoSeries, rotSeries)
CallScoreTopTurn ==
  /\ scoreOut = None
  /\ LET a == Get(scoreArgs)
     IN  scoreOut' =
           Some([fn |-> "scoreTopTurn",
                 out |-> scoreTopTurn(a.knee, a.kneeBt, a.torso, a.rot,
                                      a.series.knee, a.series.torso,
                                      a.series.rot)])
  /\ UNCHANGED <<state, framesInState, bottomSnapshot, bottomSeries,
                 topSeries, btScore, prevKnee, result, arg, changes, age,
                 seen, exitSnap, fedBottom, fedTop, pos, returned, scoreArgs,
                 calls, emitAt>>
  /\ UNCHANGED analyzerVars
  /\ UNCHANGED filterVars
  /\ UNCHANGED runVars

NextScore == CallScoreBottomTurn \/ CallScoreTopTurn

SpecScore == InitScore /\ [][NextScore]_vars

\* -------- the numbers of the smoothing filter --------
\* A TypeScript number is an IEEE-754 binary64 value; EMA.update multiplies
\* and adds such values and each operation rounds to nearest, ties to even.
\* A value is a record [m, e] standing for m * 2^e; m is a natural number
\* written in limbs of 15 bits, least significant first, with << >> for zero.
\* Angles are between 0 and 180, so there are no negative numbers, subnormals
\* or infinities here.

Limb == 2^15

RECURSIVE BigOf(_)
BigOf(n) == IF n = 0 THEN << >> ELSE <<n % Limb>> \o BigOf(n \div Limb)

RECURSIVE BigTrim(_)
BigTrim(a) ==
  IF a = << >> THEN a
  ELSE IF a[Len(a)] # 0 THEN a ELSE BigTrim(SubSeq(a, 1, Len(a) - 1))

\* a * k + c for a limb k and a carry c.
RECURSIVE BigScale(_, _, _)
BigScale(a, k, c) ==
  IF a = << >> THEN BigOf(c)
  ELSE <<(Head(a) * k + c) % Limb>>
         \o BigScale(Tail(a), k, (Head(a) * k + c) \div Limb)

RECURSIVE BigAdd(_, _)
BigAdd(a, b) ==
  IF a = << >> THEN b
  ELSE IF b = << >> THEN a
  ELSE <<(Head(a) + Head(b)) % Limb>>
         \o BigAdd(BigScale(Tail(a), 1, (Head(a) + Head(b)) \div Limb), Tail(b))

\* a - b for a >= b, limb by limb with a borrow c.
RECURSIVE BigSub(_, _, _)
BigSub(a, b, c) ==
  IF a = << >> THEN << >>
  ELSE LET x == Head(a) - (IF b = << >> THEN 0 ELSE Head(b)) - c
       IN  <<x % Limb>> \o BigSub(Tail(a), IF b = << >> THEN b ELSE Tail(b),
                                   IF x < 0 THEN 1 ELSE 0)

RECURSIVE BigMul(_, _)
BigMul(a, b) ==
  IF a = << >> \/ b = << >> THEN << >>
  ELSE BigTrim(BigAdd(BigScale(a, Head(b), 0), <<0>> \o BigMul(a, Tail(b))))

RECURSIVE BigLess(_, _)
BigLess(a, b) ==
  IF Len(a) # Len(b) THEN Len(a) < Len(b)
  ELSE IF a = << >> THEN FALSE
  ELSE IF a[Len(a)] # b[Len(b)] THEN a[Len(a)] < b[Len(b)]
  ELSE BigLess(BigTrim(SubSeq(a, 1, Len(a) - 1)),
               BigTrim(SubSeq(b, 1, Len(b) - 1)))

\* The number of binary digits of a.
BigLen(a) ==
  IF a = << >> THEN 0
  ELSE 15 * (Len(a) - 1)
         + (CHOOSE k \in 1..15 : 2^(k - 1) <= a[Len(a)] /\ a[Len(a)] < 2^k)

\* a * 2^s and the whole part of a / 2^s.
BigShl(a, s) ==
  IF a = << >> THEN a
  ELSE [i \in 1..(s \div 15) |-> 0] \o BigScale(a, 2^(s % 15), 0)

BigShr(a, s) ==
  LET b == SubSeq(a, (s \div 15) + 1, Len(a))
      p == 2^(s % 15)
  IN  BigTrim([i \in 1..Len(b) |->
                 (b[i] \div p)
                 + (IF i < Len(b) THEN (b[i + 1] % p) * (Limb \div p) ELSE 0)])

\* The binary64 value nearest to m * 2^e, ties to the even significand.
Double(m, e) ==
  LET L == BigLen(m)
      s == L - 53
      q == BigShr(m, s)
      rem == BigTrim(BigSub(m, BigShl(q, s), 0))
      half == BigShl(<<1>>, s - 1)
      up == IF rem = half THEN q[1] % 2 = 1 ELSE BigLess(half, rem)
      q1 == IF up THEN BigAdd(q, <<1>>) ELSE q
  IN  IF L = 0 THEN [m |-> << >>, e |-> 0]
      ELSE IF L <= 53 THEN [m |-> BigShl(m, 53 - L), e |-> e - (53 - L)]
      ELSE IF BigLen(q1) = 54 THEN [m |-> BigShr(q1, 1), e |-> e + s + 1]
      ELSE [m |-> q1, e |-> e + s]

\* The exact sum and difference (x >= y) of two values, and their order.
Aligned(x, y) ==
  LET e == IF x.e < y.e THEN x.e ELSE y.e
  IN  [x |-> BigShl(x.m, x.e - e), y |-> BigShl(y.m, y.e - e), e |-> e]

Sum(x, y) == [m |-> BigAdd(Aligned(x, y).x, Aligned(x, y).y), e |-> Aligned(x, y).e]

Diff(x, y) ==
  [m |-> BigTrim(BigSub(Aligned(x, y).x, Aligned(x, y).y, 0)), e |-> Aligned(x, y).e]

Less(x, y) == BigLess(Aligned(x, y).x, Aligned(x, y).y)

Leq(x, y) == ~Less(y, x)

\* The arithmetic of the language: each operation rounds its exact result.
FMul(x, y) == Double(BigMul(x.m, y.m), x.e + y.e)

FAdd(x, y) == Double(Sum(x, y).m, Sum(x, y).e)

FSub(x, y) == Double(Diff(x, y).m, Diff(x, y).e)

\* The number literal n / d (d a limb), as the parser rounds it.
RECURSIVE BigDiv(_, _)
BigDiv(a, d) ==
  IF a = << >> THEN [q |-> << >>, r |-> 0]
  ELSE LET hi == BigDiv(Tail(a), d)
           x == hi.r * Limb + Head(a)
       IN  [q |-> <<x \div d>> \o hi.q, r |-> x % d]

Number(n, d) ==
  LET top == BigDiv(BigShl(BigOf(n), 75), d)
  IN  Double(BigAdd(BigShl(BigTrim(top.q), 1), BigOf(IF top.r = 0 THEN 0 ELSE 1)), -76)

Whole(n) == Double(BigOf(n), 0)

\* FPS_SMOOTH = 0.9, the a of the three EMA objects of a TurnAnalyzer
FPS_SMOOTH == Number(FPS_SMOOTH_TENTHS, 10)

\* mutation of EmaDouble: a = 0.8
EmaDoubleLighter(v, x) ==
  IF v = None THEN x
  ELSE FAdd(FMul(Number(8, 10), Get(v)),
            FMul(FSub(Whole(1), Number(8, 10)), x))

\* EMA.update in the arithmetic of the language: the new v, which is also the
\* value returned; v is None before the first call
EmaDouble(v, x) ==
  IF v = None THEN x
  ELSE FAdd(FMul(FPS_SMOOTH, Get(v)), FMul(FSub(Whole(1), FPS_SMOOTH), x))

\* -------- TurnAnalyzer --------
\* A frame pose: the names of the landmarks it holds, and the angles the
\* geometry of angleAt, torsoAngle and rotationDiff gives for it when the
\* landmarks they read are there.
LegNames ==
  {"left_hip", "left_knee", "left_ankle", "right_hip", "right_knee",
   "right_ankle"}
TrunkNames == {"left_shoulder", "right_shoulder", "left_hip", "right_hip"}

\* mutation of avgKneeFlex: only a missing knee gives the default
avgKneeFlexKneesOnly(keypoints) ==
  IF {"left_knee", "right_knee"} \subseteq keypoints.names
  THEN keypoints.knee
  ELSE 90

avgKneeFlex(keypoints) ==
  IF LegNames \subseteq keypoints.names THEN keypoints.knee ELSE 90

torsoAngle(keypoints) ==
  IF TrunkNames \subseteq keypoints.names THEN keypoints.torso ELSE 0

rotationDiff(keypoints) ==
  IF TrunkNames \subseteq keypoints.names THEN keypoints.rot ELSE 0

\* EMA.update: the new v, which is also the value returned
EmaUpdate(v, x) ==
  IF v = None THEN x
  ELSE (FPS_SMOOTH_TENTHS * Get(v) + (10 - FPS_SMOOTH_TENTHS) * x) \div 10

\* a whole angle v smoothed with itself is v, in the arithmetic of the language
HoldExact ==
  \A v \in 0..180 : EmaDouble(Some(Whole(v)), Whole(v)) = Whole(v)

\* whether EmaUpdate(v, x) is the exact a * v + (1 - a) * x, and is what the
\* arithmetic of the language gives for the whole angles v and x
EmaExact(v, x) ==
  IF v = None THEN TRUE
  ELSE IF x = Get(v) THEN Get(v) \in 0..180 /\ HoldExact
  ELSE IF (FPS_SMOOTH_TENTHS * Get(v) + (10 - FPS_SMOOTH_TENTHS) * x) % 10 # 0
  THEN FALSE
  ELSE EmaDouble(Some(Whole(Get(v))), Whole(x)) = Whole(EmaUpdate(v, x))

\* the fields of the TurnAnalyzer
Analyzer ==
  [emaKnee |-> emaKnee, emaTorso |-> emaTorso, emaRot |-> emaRot,
   fsm |-> Fsm, turnResults |-> turnResults]

\* mutation of FrameRet: processFrame returns nothing
FrameRetNull(res) == None

\* what processFrame returns, given what fsm.update returned
FrameRet(res) == res

\* TurnAnalyzer.processFrame: [an |-> the object after the call, raw |-> the
\* angles taken from the pose, smoothed |-> the triple given to fsm.update,
\* ret |-> what the call returns]
processFrame(an, keypoints) ==
  LET knee == EmaUpdate(an.emaKnee, avgKneeFlex(keypoints))
      torso == EmaUpdate(an.emaTorso, torsoAngle(keypoints))
      rot == EmaUpdate(an.emaRot, rotationDiff(keypoints))
      out == FsmUpdate(an.fsm, knee, torso, rot)
  IN  [an |-> [emaKnee |-> Some(knee), emaTorso |-> Some(torso),
               emaRot |-> Some(rot), fsm |-> out.fsm,
               turnResults |-> IF IsSome(out.ret)
                               THEN Append(an.turnResults, Get(out.ret))
                               ELSE an.turnResults],
       raw |-> Triple(avgKneeFlex(keypoints), torsoAngle(keypoints),
                      rotationDiff(keypoints)),
       smoothed |-> Triple(knee, torso, rot),
       ret |-> FrameRet(out.ret)]

getCurrentState(an) == StateLabel(an.fsm.state)

getTurnResults(an) == an.turnResults

\* mutation of reset: the accumulated results are kept
resetKeepsResults(an) ==
  [emaKnee |-> None, emaTorso |-> None, emaRot |-> None, fsm |-> NewFSM,
   turnResults |-> an.turnResults]

\* mutation of reset: the new TurnFSM takes over the previous knee
resetKeepsPrevKnee(an) ==
  [emaKnee |-> None, emaTorso |-> None, emaRot |-> None,
   fsm |-> [NewFSM EXCEPT !.prevKnee = an.fsm.prevKnee],
   turnResults |-> << >>]

\* TurnAnalyzer.reset
reset(an) ==
  [emaKnee |-> None, emaTorso |-> None, emaRot |-> None, fsm |-> NewFSM,
   turnResults |-> << >>]

\* The caller. Here `changes` counts the frames on which the pose moved and
\* `pos` the resets. A pose holds its angles or moves them by steps that
\* keep the smoothed angles whole numbers.
MaxMoves == 4
MaxResets == 1

AllNames == LegNames \cup TrunkNames

\* the pose `keypoints` without the landmark `name`
Without(keypoints, name) ==
  [keypoints EXCEPT !.names = keypoints.names \ {name}]

\* the first poses of a session: in the onset band with every landmark,
\* such a pose with one landmark missing, or no landmark
SeedPoses ==
  {[names |-> AllNames, knee |-> 90, torso |-> 40, rot |-> 20],
   [names |-> {}, knee |-> 0, torso |-> 0, rot |-> 0]}
    \cup {Without([names |-> AllNames, knee |-> 85, torso |-> 40, rot |-> 20],
                  name) : name \in AllNames}

\* the steps of the smoothed (knee, torso), by the state the machine is in
PoseSteps ==
  CASE state = BOTTOM -> {<<0, 0>>, <<0, -4>>, <<4, -3>>}
    [] state = TOP -> {<<0, 0>>, <<4, 0>>}
    [] OTHER -> {<<0, 0>>}

\* the pose whose smoothing moves the knee and the torso by `step`
PoseMoving(step) ==
  [names |-> AllNames,
   knee |-> Get(emaKnee) + 10 * step[1],
   torso |-> Get(emaTorso) + 10 * step[2],
   rot |-> Get(emaRot)]

\* the landmarks a later pose may lack: a knee, or a shoulder as long as the
\* pose has not moved
LostNames ==
  IF changes = 0 THEN {"left_knee", "right_shoulder"} ELSE {"left_knee"}

NextPoses ==
  IF emaKnee = None THEN SeedPoses
  ELSE {PoseMoving(step) : step \in PoseSteps}
         \cup {Without(PoseMoving(<<0, 0>>), name) : name \in LostNames}

Holds(keypoints) ==
  IF emaKnee = None THEN TRUE
  ELSE /\ avgKneeFlex(keypoints) = Get(emaKnee)
       /\ torsoAngle(keypoints) = Get(emaTorso)
       /\ rotationDiff(keypoints) = Get(emaRot)

\* turnAnalyzer.processFrame(keypoints), and what an observer of the call
\* records
FrameCall(keypoints) ==
  LET out == processFrame(Analyzer, keypoints)
  IN  /\ Call(out.smoothed)
      /\ emaKnee' = out.an.emaKnee
      /\ emaTorso' = out.an.emaTorso
      /\ emaRot' = out.an.emaRot
      /\ turnResults' = out.an.turnResults
      /\ frameRet' = out.ret
      /\ op' = "processFrame"
      /\ returned' = IF IsSome(out.ret) THEN Append(returned, Get(out.ret))
                      ELSE returned
      /\ twin' = [an |-> processFrame(twin.an, keypoints).an,
                   ret |-> processFrame(twin.an, keypoints).ret]
      /\ pose' = Some([keypoints |-> keypoints, raw |-> out.raw])
      /\ UNCHANGED resetFrom

\* whether the smoothing of the pose by the analyzer `an` is exact
PoseExact(an, keypoints) ==
  /\ avgKneeFlex(keypoints) \in 0..180
  /\ torsoAngle(keypoints) \in 0..180
  /\ \A pair \in {<<an.emaKnee, avgKneeFlex(keypoints)>>,
                   <<an.emaTorso, torsoAngle(keypoints)>>,
                   <<an.emaRot, rotationDiff(keypoints)>>} :
       EmaExact(pair[1], pair[2])

ProcessFrame ==
  \E keypoints \in NextPoses :
    /\ state \in {IDLE} => framesInState < MaxIdle
    /\ state \in {BOTTOM, TOP} => framesInState < MaxHold
    /\ (IF Holds(keypoints) THEN TRUE ELSE changes < MaxMoves)
    /\ PoseExact(Analyzer, keypoints)
    /\ FrameCall(keypoints)
    /\ changes' = IF Holds(keypoints) THEN changes ELSE changes + 1
    /\ UNCHANGED pos
    /\ UNCHANGED scoreVars
    /\ UNCHANGED filterVars
    /\ UNCHANGED runVars

\* turnAnalyzer.reset(), and what an observer of the call records
ResetCall ==
  LET an == reset(Analyzer)
  IN  /\ state' = an.fsm.state
      /\ framesInState' = an.fsm.framesInState
      /\ bottomSnapshot' = an.fsm.bottomSnapshot
      /\ bottomSeries' = an.fsm.bottomSeries
      /\ topSeries' = an.fsm.topSeries
      /\ btScore' = an.fsm.btScore
      /\ prevKnee' = an.fsm.prevKnee
      /\ emaKnee' = an.emaKnee
      /\ emaTorso' = an.emaTorso
      /\ emaRot' = an.emaRot
      /\ turnResults' = an.turnResults
      /\ frameRet' = None
      /\ op' = "reset"
      /\ resetFrom' = Some([state |-> state, results |-> Len(turnResults)])
      /\ twin' = [an |-> NewAnalyzer, ret |-> None]
      /\ result' = None
      /\ arg' = None
      /\ age' = 0
      /\ seen' = << >>
      /\ exitSnap' = None
      /\ fedBottom' = << >>
      /\ fedTop' = << >>
      /\ returned' = << >>
      /\ pose' = None
      /\ calls' = 0
      /\ emitAt' = << >>

Reset ==
  /\ pos < MaxResets
  /\ op = "processFrame"
  /\ ResetCall
  /\ pos' = pos + 1
  /\ UNCHANGED changes
  /\ UNCHANGED scoreVars
  /\ UNCHANGED filterVars
  /\ UNCHANGED runVars

NextAnalyzer == ProcessFrame \/ Reset

SpecAnalyzer == Init /\ [][NextAnalyzer]_vars

\* -------- the analysis runs of the views --------
\* Both views import the one TurnAnalyzer that the module exports. A run
\* resets it, then handles up to FramesToProcess frames, awaiting the pose of
\* each: between two steps of a run the other run may take steps. Here `pos`
\* counts the times a run has taken over from a run that is in its loop (and
\* has then handled at most MaxLead frames) and `changes` the frames on which
\* the pose moved or was not detected.
FramesToProcess == 10
MaxSwitches == 1
MaxLead == 0
MaxRunMoves == 2

\* frames.length: a video of one frame or of a hundred
FrameCounts == {1, 100}

\* a loop over every frame of the video
FramesOfAll(length) == length

\* Math.min(frames.length, 10)
FramesOf(length) ==
  IF length <= FramesToProcess THEN length ELSE FramesToProcess

RunPoses ==
  IF emaKnee = None
  THEN {[names |-> AllNames, knee |-> 90, torso |-> 40, rot |-> 20]}
  ELSE {PoseMoving(step) : step \in PoseSteps}

\* whether run r, acting now, takes over from a run that is in its loop
TakesOver(r) ==
  IF runs.last \in RunIds \ {r} THEN runs.by[runs.last].pc = "loop" ELSE FALSE

Turn(r) ==
  /\ TakesOver(r) => pos < MaxSwitches /\ runs.by[runs.last].i <= MaxLead
  /\ pos' = IF TakesOver(r) THEN pos + 1 ELSE pos

Others(r) == RunIds \ {r}

\* turnAnalyzer.reset() at the start of a run on a video of `length` frames
RunStart(r, length) ==
  /\ runs.by[r].pc = "none"
  /\ Turn(r)
  /\ ResetCall
  /\ runs' =
       [by |-> [q \in RunIds |->
                  IF q = r
                  THEN [NoRun EXCEPT
                          !.pc = "loop",
                          !.n = FramesOf(length),
                          !.alone = \A o \in Others(r) : runs.by[o].pc # "loop"]
                  ELSE IF runs.by[q].pc = "loop"
                  THEN [runs.by[q] EXCEPT !.alone = FALSE]
                  ELSE runs.by[q]],
        last |-> r]
  /\ UNCHANGED changes
  /\ UNCHANGED scoreVars
  /\ UNCHANGED filterVars

\* a frame whose pose was detected: turnAnalyzer.processFrame(keypoints)
RunFrame(r) ==
  \E keypoints \in RunPoses :
    LET me == runs.by[r]
    IN  /\ me.pc = "loop"
        /\ me.i < me.n
        /\ Turn(r)
        /\ (IF Holds(keypoints) THEN TRUE ELSE changes < MaxRunMoves)
        /\ PoseExact(Analyzer, keypoints)
        /\ FrameCall(keypoints)
        /\ changes' = IF Holds(keypoints) THEN changes ELSE changes + 1
        /\ runs' =
             [by |-> [runs.by EXCEPT
                        ![r] = [me EXCEPT
                                  !.i = me.i + 1,
                                  !.detectedTurns =
                                     IF IsSome(frameRet')
                                     THEN Append(me.detectedTurns,
                                                 Get(frameRet'))
                                     ELSE me.detectedTurns]],
              last |-> r]
        /\ UNCHANGED scoreVars
        /\ UNCHANGED filterVars

\* a frame in which no pose was detected: the analyzer is not called
RunSkip(r) ==
  /\ runs.by[r].pc = "loop"
  /\ runs.by[r].i < runs.by[r].n
  /\ changes < MaxRunMoves
  /\ Turn(r)
  /\ runs' = [by |-> [runs.by EXCEPT ![r].i = runs.by[r].i + 1,
                                     ![r].skipped = runs.by[r].skipped + 1],
              last |-> r]
  /\ changes' = changes + 1
  /\ UNCHANGED <<state, framesInState, bottomSnapshot, bottomSeries,
                 topSeries, btScore, prevKnee, result, arg, age,
                 seen, exitSnap, fedBottom, fedTop, returned, calls, emitAt>>
  /\ UNCHANGED scoreVars
  /\ UNCHANGED analyzerVars
  /\ UNCHANGED filterVars

\* the loop is over: the upload view keeps its detectedTurns, the comparison
\* view reads turnAnalyzer.getTurnResults()
RunEnd(r) ==
  /\ runs.by[r].pc = "loop"
  /\ runs.by[r].i = runs.by[r].n
  /\ Turn(r)
  /\ runs' =
       [by |-> [runs.by EXCEPT
                  ![r].pc = "done",
                  ![r].turns =
                     Some(IF r = 1 THEN runs.by[r].detectedTurns
                          ELSE getTurnResults(Analyzer))],
        last |-> r]
  /\ UNCHANGED <<state, framesInState, bottomSnapshot, bottomSeries,
                 topSeries, btScore, prevKnee, result, arg, changes, age,
                 seen, exitSnap, fedBottom, fedTop, returned, calls, emitAt>>
  /\ UNCHANGED scoreVars
  /\ UNCHANGED analyzerVars
  /\ UNCHANGED filterVars

NextRuns ==
  \E r \in RunIds :
    \/ \E length \in FrameCounts : RunStart(r, length)
    \/ RunFrame(r)
    \/ RunSkip(r)
    \/ RunEnd(r)

SpecRuns == Init /\ [][NextRuns]_vars

\* -------- an EMA on its own --------
\* The variables of the machine and of its bounded callers.
machineVars ==
  <<state, framesInState, bottomSnapshot, bottomSeries, topSeries, btScore,
    prevKnee, result, arg, changes, age, seen, exitSnap, fedBottom, fedTop,
    pos, returned, calls, emitAt>>

MaxSmooth == 3

\* the number just below x (x not zero)
Below(x) == Double(Diff(x, [m |-> <<1>>, e |-> x.e]).m, x.e)

\* raw angles a pose may give: whole ones and 3.9
RawAngles ==
  {Whole(0), Whole(29), Whole(31), Whole(85), Whole(180), Number(39, 10)}

\* raw angles about 30 degrees above the smoothed angle v
RawNearRise(v) == {FAdd(v, Whole(30)), Below(FAdd(v, Whole(30)))}

\* ema.update(x) on an EMA constructed with the default alpha
Smooth(x) ==
  /\ Len(emaIn) < MaxSmooth
  /\ emaV' = Some(EmaDouble(emaV, x))
  /\ emaIn' = Append(emaIn, x)
  /\ emaOut' = Append(emaOut, EmaDouble(emaV, x))
  /\ UNCHANGED machineVars
  /\ UNCHANGED scoreVars
  /\ UNCHANGED analyzerVars
  /\ UNCHANGED runVars

SmoothRaw == \E x \in RawAngles : Smooth(x)

SmoothNearRise == emaV # None /\ \E x \in RawNearRise(Get(emaV)) : Smooth(x)

NextSmooth == SmoothRaw \/ SmoothNearRise

SpecSmooth == Init /\ [][NextSmooth]_vars

\* TurnFSM.update, `extending` in BOTTOM, on the smoothed knee angles that
\* processFrame passes: knee - this.prevKnee > 3.0
ExtendingDouble(before, knee) ==
  IF Less(knee, before) THEN FALSE
  ELSE Less(Whole(3), FSub(knee, before))

\* ======================= properties =======================
CycleEdges ==
  {<<IDLE, BOTTOM>>, <<BOTTOM, TRANSITION>>, <<TRANSITION, TOP>>,
   <<TOP, COOLDOWN>>, <<COOLDOWN, IDLE>>}

\* C1: every update call leaves the state unchanged or moves it along exactly
\* one edge of the cycle IDLE -> BOTTOM -> TRANSITION -> TOP -> COOLDOWN -> IDLE.
C1_OnlyCycleEdges ==
  [][state' = state \/ <<state, state'>> \in CycleEdges]_vars

\* C1 witness: the machine has gone round the whole cycle and entered BOTTOM
\* again (the histories were cleared, and the stream has changed twice).
C1_SecondOnset ==
  /\ state = BOTTOM
  /\ age = 0
  /\ changes = 2
  /\ Len(bottomSeries.knee) = 1

\* C2: an update call returns a Turn Result if and only if that call moves
\* the state from TOP to COOLDOWN; every other call returns nothing.
C2_ResultIffTopToCooldown ==
  [][(result' # None) <=> (state = TOP /\ state' = COOLDOWN)]_vars

\* C2 witness: a call has just returned a result.
C2_ResultReturned == result # None /\ state = COOLDOWN /\ age = 0

\* C3: every emitted Turn Result has bottom_turn.frames >= 6 and
\* top_turn.frames >= 6.
C3_FramesAtLeastSix ==
  result # None =>
    /\ Get(result).bottom_turn.frames >= 6
    /\ Get(result).top_turn.frames >= 6

\* C3 witness: a result whose bottom-phase frame count is exactly 6.
C3_ResultWithSixFrames ==
  result # None /\ Get(result).bottom_turn.frames = 6

\* the onset condition as the specification words it
C4_Onset(in) ==
  /\ 70 <= in.knee /\ in.knee <= 100
  /\ 20 <= in.torso /\ in.torso <= 40
  /\ in.rot >= 15

\* C4: in IDLE an update call moves to BOTTOM iff 70 <= knee <= 100 and
\* 20 <= torso <= 40 and rot >= 15 in that call; when it fires the snapshot is
\* the call's triple and the frame counter is 1; otherwise the state stays IDLE
\* and there is no snapshot.
C4_IdleToBottomIff ==
  [][state = IDLE =>
       /\ (state' = BOTTOM) <=> C4_Onset(Get(arg'))
       /\ state' = BOTTOM =>
            bottomSnapshot' = Some(Get(arg')) /\ framesInState' = 1
       /\ state' # BOTTOM => state' = IDLE /\ bottomSnapshot' = None]_vars

\* C4 witness: BOTTOM was entered on a frame with knee on its upper bound and
\* torso on its lower bound, after a frame that did not qualify.
C4_OnsetOnBounds ==
  /\ state = BOTTOM
  /\ age = 0
  /\ arg = Some(Triple(100, 20, 15))
  /\ Len(bottomSeries.knee) = 2
\* the BOTTOM exit condition as claim C5 words it, for the call that takes the
\* machine from the unprimed to the primed state: in is the call's triple, the
\* preceding call's triple is arg, the snapshot is the one the call leaves
C5_ExitAsClaimed ==
  /\ bottomSnapshot' # None
  /\ Get(arg').knee - Get(arg).knee > 3
  /\ \/ Get(arg').torso < 18
     \/ Get(arg').torso <= Get(bottomSnapshot').torso - 5
  /\ Len(seen') >= 6

\* the same with the torso strictly more than 5 under the snapshot's
C5_ExitAmended ==
  /\ bottomSnapshot' # None
  /\ Get(arg').knee - Get(arg).knee > 3
  /\ \/ Get(arg').torso < 18
     \/ Get(arg').torso < Get(bottomSnapshot').torso - 5
  /\ Len(seen') >= 6

\* C5 as stated: in BOTTOM an update call moves to TRANSITION iff knee exceeds
\* the preceding call's knee by more than 3, torso is below 18 or at least 5
\* under the snapshot's torso, 6 frames have elapsed in BOTTOM and a snapshot
\* exists.
C5_BottomExitIffOriginal ==
  [][state = BOTTOM => ((state' = TRANSITION) <=> C5_ExitAsClaimed)]_vars

\* C5 amended: as C5, with "at least 5 under" replaced by "more than 5 under
\* the torso of the snapshot as this call's closer-to-85 replacement leaves it";
\* a call that does not fire stays in BOTTOM.
C5_BottomExitIff ==
  [][state = BOTTOM =>
       /\ (state' = TRANSITION) <=> C5_ExitAmended
       /\ state' \in {BOTTOM, TRANSITION}]_vars

\* C5 witness: BOTTOM was left on a frame whose torso is not below 18, so the
\* exit rests on the snapshot's torso.
C5_ExitBySnapshotTorso ==
  /\ state = TRANSITION
  /\ age = 0
  /\ Get(arg).torso >= 18

\* C6: in TOP an update call moves to COOLDOWN, and returns the result, iff
\* torso <= 30, rot >= 10, knee - snapshot.knee >= 5 (true without a
\* snapshot) and at least 6 update calls were made since TOP was entered.
C6_TopExitIff ==
  [][state = TOP =>
       LET in == Get(arg')
           fires == /\ in.torso <= 30
                    /\ in.rot >= 10
                    /\ (bottomSnapshot = None
                          \/ in.knee - Get(bottomSnapshot).knee >= 5)
                    /\ age + 1 >= 6
       IN  /\ (state' = COOLDOWN) <=> fires
           /\ (result' # None) <=> fires
           /\ state' \in {TOP, COOLDOWN}]_vars

\* C6 witness: TOP was left later than its sixth frame, on a frame whose
\* torso, rotation and extension sit exactly on their bounds.
C6_ExitOnBounds ==
  /\ state = COOLDOWN
  /\ age = 0
  /\ result # None
  /\ Get(result).top_turn.frames > 9
  /\ Get(arg).torso = 30
  /\ Get(arg).rot = 10
  /\ Get(arg).knee - Get(bottomSnapshot).knee = 5

\* C7: once entered, TRANSITION lasts exactly 3 update calls, whatever their
\* triples: the third call, and no other call, enters TOP.
C7_TransitionThreeCalls ==
  [][/\ state = TRANSITION =>
          /\ (state' = TOP) <=> (age = 2)
          /\ state' \in {TRANSITION, TOP}
     /\ (state' = TOP /\ state # TOP) => (state = TRANSITION /\ age = 2)]_vars

\* C7 witness: TOP was just entered, and the stream changed in TRANSITION.
C7_TopEntered ==
  /\ state = TOP
  /\ age = 0
  /\ arg = Some(Triple(130, 15, 20))

\* C8: once entered, COOLDOWN returns to IDLE in exactly the 12th update call,
\* whatever the inputs; that call clears the snapshot, the stored bottom score
\* and both histories, and no earlier COOLDOWN call changes or clears them.
C8_CooldownTwelveCalls ==
  [][state = COOLDOWN =>
       /\ (state' = IDLE) <=> (age = 11)
       /\ state' \in {COOLDOWN, IDLE}
       /\ state' = IDLE =>
            /\ bottomSnapshot' = None
            /\ btScore' = None
            /\ bottomSeries' = EmptySeries
            /\ topSeries' = EmptySeries
       /\ state' = COOLDOWN =>
            /\ bottomSnapshot' = bottomSnapshot /\ bottomSnapshot # None
            /\ btScore' = btScore /\ btScore # None
            /\ bottomSeries' = bottomSeries /\ Len(bottomSeries.knee) > 0
            /\ topSeries' = topSeries /\ Len(topSeries.knee) > 0]_vars

\* C8 witness: the machine is back in IDLE after a cooldown.
C8_BackInIdle ==
  /\ state = IDLE
  /\ age = 0
  /\ arg # None
  /\ bottomSnapshot = None
  /\ topSeries = EmptySeries

C9_Dist(in) == Abs(in.knee - 85)

\* the earliest triple of s whose knee is closest to 85
C9_Best(s) ==
  s[CHOOSE i \in 1..Len(s) :
      \A j \in 1..Len(s) :
        /\ C9_Dist(s[i]) <= C9_Dist(s[j])
        /\ j < i => C9_Dist(s[j]) > C9_Dist(s[i])]

\* C9: in BOTTOM each update call replaces the snapshot by its triple exactly
\* when its knee is strictly closer to 85 than the snapshot's knee; the
\* snapshot's distance to 85 never grows; and after every BOTTOM call, the
\* exit included, the snapshot is the earliest closest-to-85 triple among the
\* frames since (and including) the onset frame.
C9_SnapshotTracksClosest ==
  [][state = BOTTOM =>
       LET in == Get(arg')
           old == Get(bottomSnapshot)
       IN  /\ bottomSnapshot # None
           /\ bottomSnapshot' =
                IF C9_Dist(in) < C9_Dist(old) THEN Some(in) ELSE bottomSnapshot
           /\ C9_Dist(Get(bottomSnapshot')) <= C9_Dist(old)
           /\ bottomSnapshot' = Some(C9_Best(seen'))]_vars

\* C9 witness: BOTTOM was left with a snapshot that is neither the onset frame
\* nor the exit frame.
C9_ExitWithReplacedSnapshot ==
  /\ state = TRANSITION
  /\ age = 0
  /\ bottomSnapshot # Some(seen[1])
  /\ bottomSnapshot # arg

\* C10: the snapshot changes only in update calls made in BOTTOM, on its
\* creation (IDLE -> BOTTOM) and on its clearing (COOLDOWN -> IDLE); an
\* emitted result carries the snapshot as the BOTTOM exit left it.
C10_SnapshotFrozenAfterBottom ==
  [][/\ bottomSnapshot' # bottomSnapshot =>
          \/ state = BOTTOM
          \/ state = IDLE /\ state' = BOTTOM
          \/ state = COOLDOWN /\ state' = IDLE /\ age = 11
     /\ state \in {TRANSITION, TOP} => bottomSnapshot' = bottomSnapshot
     /\ result' # None =>
          /\ exitSnap # None
          /\ Some(Get(result').bottom_turn.snapshot) = exitSnap]_vars

\* C10 witness: a result was returned on a frame that differs from the frames
\* of TRANSITION, with a snapshot replaced during BOTTOM.
C10_ResultAfterChanges ==
  /\ result # None
  /\ changes = 2
  /\ exitSnap # Some(seen[1])
  /\ Some(Get(result).bottom_turn.snapshot) = exitSnap


\* what a phase's history holds of the triples fed to it
Kept(triples) == SeriesOf(LastN(triples, SERIES_CAP))

\* C11: in every emitted TurnResult the bottom_turn score and detail are the
\* bottom-turn rubric applied to the snapshot and the bottom-phase history as
\* the BOTTOM exit left them, and the top_turn score and detail are the
\* top-turn rubric applied to the live triple of the emitting frame, the
\* snapshot's knee, and the frames received after that exit.
C11_ResultScoresExitAndLive ==
  IsSome(result) =>
    LET r == Get(result)
        snap == Get(exitSnap)
        live == Get(arg)
        bh == Kept(fedBottom)
        th == Kept(fedTop)
        bt == scoreBottomTurn(snap.knee, snap.torso, snap.rot,
                              bh.knee, bh.torso, bh.rot)
        tt == scoreTopTurn(live.knee, Some(snap.knee), live.torso, live.rot,
                           th.knee, th.torso, th.rot)
    IN  /\ r.bottom_turn.score = bt.score
        /\ r.bottom_turn.detail = Some(bt.detail)
        /\ r.top_turn.score = tt.score
        /\ r.top_turn.detail = tt.detail

\* C11 witness: a result is emitted whose snapshot is not the frame that left
\* BOTTOM, whose bottom detail differs from the rubric of that frame, and
\* whose bottom history began in IDLE.
C11_ResultOfOlderSnapshot ==
  /\ IsSome(result)
  /\ Len(fedBottom) > Len(seen)
  /\ Len(fedTop) >= TRANSITION_FRAMES + MIN_DET_FRAMES
  /\ LET live == fedBottom[Len(fedBottom)]
         bh == Kept(fedBottom)
     IN  /\ Get(exitSnap) # live
         /\ Get(result).bottom_turn.detail #
              Some(scoreBottomTurn(live.knee, live.torso, live.rot,
                                   bh.knee, bh.torso, bh.rot).detail)


\* C12: on a fresh machine fed 8 frames (85,30,20), 2 frames (110,15,20), 3
\* free frames and 8 frames (130,15,20), the first frame enters BOTTOM with
\* snapshot (85,30,20), BOTTOM is left during the (110,15,20) frames, TOP is
\* reached, and the 21 frames emit exactly one TurnResult, whose bottom
\* detail has compression 3, torso lean 3 and rotation 2 points and whose top
\* extension delta is 130 - 85 = 45, worth 3 points.
C12_ScriptedTurn ==
  /\ pos \in 1..8 =>
       state = BOTTOM /\ bottomSnapshot = Some(Triple(85, 30, 20))
  /\ pos \in 9..10 => state = TRANSITION
  /\ pos \in 12..17 => state = TOP
  /\ Len(returned) <= 1
  /\ pos = 21 =>
       /\ Len(returned) = 1
       /\ LET r == returned[1]
              bd == Get(r.bottom_turn.detail)
          IN  /\ bd.compression[1] = 3
              /\ bd.torso_lean[1] = 3
              /\ bd.rotation[1] = 2
              /\ r.top_turn.detail.extension_delta_vs_bottom = <<3, 45>>

\* C12 witness: the script has run to its end with one result, the free
\* frames having been three different triples, the last of them one that
\* meets the angle conditions of the TOP exit.
C12_ScriptDone ==
  /\ pos = Len(Script)
  /\ Len(returned) = 1
  /\ state = COOLDOWN
  /\ fedTop[2] # fedTop[3]
  /\ fedTop[3] # fedTop[4]
  /\ fedTop[4] = Triple(130, 15, 20)


\* whether a score is the sum of its four criteria, each within its maximum
Sums(sc, names, maxima) ==
  /\ DOMAIN sc.detail = {names[i] : i \in 1..4}
  /\ \A i \in 1..4 : sc.detail[names[i]][1] \in 0..maxima[i]
  /\ sc.score = SumSeq([i \in 1..4 |-> sc.detail[names[i]][1]])
  /\ sc.score \in 0..10

BottomCriteria == <<"compression", "torso_lean", "rotation", "smoothness_std">>
TopCriteria ==
  <<"extension_delta_vs_bottom", "upright_torso", "rotation", "smoothness_std">>

\* C13: the total scoreBottomTurn and scoreTopTurn return is the sum of the
\* points of the four detail criteria, each criterion is within 0..its
\* maximum (3,3,2,2 for bottom, 3,2,3,2 for top) and the total is an integer
\* in 0..10; so both scores of an emitted TurnResult are in 0..10.
C13_ScoreIsSumWithinCeiling ==
  /\ IsSome(scoreOut) =>
       IF Get(scoreOut).fn = "scoreBottomTurn"
       THEN Sums(Get(scoreOut).out, BottomCriteria, <<3, 3, 2, 2>>)
       ELSE Sums(Get(scoreOut).out, TopCriteria, <<3, 2, 3, 2>>)
  /\ IsSome(result) =>
       /\ Get(result).bottom_turn.score \in 0..10
       /\ Get(result).top_turn.score \in 0..10

\* C13 witness: scoreTopTurn has returned the full 10 points.
C13_TopScoreTen ==
  /\ IsSome(scoreOut)
  /\ Get(scoreOut).fn = "scoreTopTurn"
  /\ Get(scoreOut).out.score = 10

\* C14: scoreBottomTurn awards compression 3 for knee in [70,100], 2 for
\* [60,70) or (100,110], 1 for [50,60) or (110,120], else 0; torso lean 3 for
\* torso in [20,40], 2 for [15,20) or (40,50], 1 for [10,15) or (50,60], else
\* 0; rotation 2 for rot >= 15, 1 for rot >= 10, else 0.
C14_BottomBands ==
  IsSome(scoreOut) /\ Get(scoreOut).fn = "scoreBottomTurn" =>
    LET a == Get(scoreArgs)
        d == Get(scoreOut).out.detail
        k == a.knee
        t == a.torso
    IN  /\ d.compression =
             << CASE 70 <= k /\ k <= 100 -> 3
                  [] (60 <= k /\ k < 70) \/ (100 < k /\ k <= 110) -> 2
                  [] (50 <= k /\ k < 60) \/ (110 < k /\ k <= 120) -> 1
                  [] OTHER -> 0,
                k >>
        /\ d.torso_lean =
             << CASE 20 <= t /\ t <= 40 -> 3
                  [] (15 <= t /\ t < 20) \/ (40 < t /\ t <= 50) -> 2
                  [] (10 <= t /\ t < 15) \/ (50 < t /\ t <= 60) -> 1
                  [] OTHER -> 0,
                t >>
        /\ d.rotation =
             << CASE a.rot >= 15 -> 2 [] a.rot < 15 /\ a.rot >= 10 -> 1
                  [] OTHER -> 0,
                a.rot >>

\* C14 witness: scoreBottomTurn has scored a triple on the lower edge of the
\* best knee band, the upper edge of the best torso band and the edge of the
\* best rotation band.
C14_BottomOnEdges ==
  /\ IsSome(scoreOut)
  /\ Get(scoreOut).fn = "scoreBottomTurn"
  /\ Get(scoreArgs).knee = 70
  /\ Get(scoreArgs).torso = 40
  /\ Get(scoreArgs).rot = 15
  /\ Get(scoreOut).out.detail.compression[1] = 3


\* the points of an extension delta, as the claims band it
C15_Bands(delta) ==
  CASE delta >= 15 -> 3
    [] delta < 15 /\ delta >= 10 -> 2
    [] delta < 10 /\ delta >= 5 -> 1
    [] OTHER -> 0

\* the extension criterion of a scoreTopTurn call is that of `delta`
C15_ExtensionIs(delta) ==
  Get(scoreOut).out.detail.extension_delta_vs_bottom =
    <<C15_Bands(delta), delta>>

\* C15 as stated: the extension criterion of scoreTopTurn uses delta =
\* kneeNow - kneeAtBottom, with kneeAtBottom taken as 0 when it is absent, and
\* awards 3 points for delta >= 15, 2 for delta >= 10, 1 for delta >= 5, else 0.
C15_ExtensionAbsentAsZeroKnee ==
  IsSome(scoreOut) /\ Get(scoreOut).fn = "scoreTopTurn" =>
    LET a == Get(scoreArgs)
    IN  C15_ExtensionIs(a.knee - (IF IsSome(a.kneeBt) THEN Get(a.kneeBt) ELSE 0))

\* C15, amended: the extension criterion of scoreTopTurn uses delta =
\* kneeNow - kneeAtBottom when kneeAtBottom is present and delta = 0 when it
\* is absent, and awards 3 points for delta >= 15, 2 for delta >= 10, 1 for
\* delta >= 5, else 0.
C15_ExtensionAbsentAsZeroDelta ==
  IsSome(scoreOut) /\ Get(scoreOut).fn = "scoreTopTurn" =>
    LET a == Get(scoreArgs)
    IN  C15_ExtensionIs(IF IsSome(a.kneeBt) THEN a.knee - Get(a.kneeBt) ELSE 0)

\* C15 witness: scoreTopTurn, given a knee of 100 and no bottom-turn knee,
\* has returned an extension of 0 worth no point.
C15_NoPointWithoutBottomKnee ==
  /\ IsSome(scoreOut)
  /\ Get(scoreOut).fn = "scoreTopTurn"
  /\ Get(scoreArgs).kneeBt = None
  /\ Get(scoreArgs).knee = 100
  /\ Get(scoreOut).out.detail.extension_delta_vs_bottom = <<0, 0>>

\* C16: scoreTopTurn awards upright torso 2 points for torso <= 20, 1 for
\* torso <= 30, else 0, and rotation 3 points for rot >= 15, 2 for rot >= 10,
\* 1 for rot >= 5, else 0.
C16_TopBands ==
  IsSome(scoreOut) /\ Get(scoreOut).fn = "scoreTopTurn" =>
    LET a == Get(scoreArgs)
        d == Get(scoreOut).out.detail
    IN  /\ d.upright_torso =
             << CASE a.torso <= 20 -> 2
                  [] a.torso > 20 /\ a.torso <= 30 -> 1
                  [] OTHER -> 0,
                a.torso >>
        /\ d.rotation =
             << CASE a.rot >= 15 -> 3
                  [] a.rot < 15 /\ a.rot >= 10 -> 2
                  [] a.rot < 10 /\ a.rot >= 5 -> 1
                  [] OTHER -> 0,
                a.rot >>

\* C16 witness: scoreTopTurn has scored a torso of 30 and a rotation of 5,
\* the edges of the one-point bands.
C16_TopOnEdges ==
  /\ IsSome(scoreOut)
  /\ Get(scoreOut).fn = "scoreTopTurn"
  /\ Get(scoreArgs).torso = 30
  /\ Get(scoreArgs).rot = 5
  /\ Get(scoreOut).out.detail.upright_torso[1] = 1
  /\ Get(scoreOut).out.detail.rotation[1] = 1


\* the three series of a history have one length, at most the capacity
C17_Shape(series) ==
  /\ Len(series.knee) <= 30
  /\ Len(series.torso) = Len(series.knee)
  /\ Len(series.rot) = Len(series.knee)

\* C17: in every reachable state each rolling history holds at most 30
\* entries, the knee, torso and rot series of one phase have equal length,
\* and a history's content is exactly the most recent (up to 30) values
\* appended to it since it was last cleared, oldest first; 40 values pushed
\* while the machine stays in IDLE leave exactly the last 30 in order.
C17_HistoryIsLastThirty ==
  /\ C17_Shape(bottomSeries)
  /\ C17_Shape(topSeries)
  /\ bottomSeries = SeriesOf(LastN(fedBottom, 30))
  /\ topSeries = SeriesOf(LastN(fedTop, 30))
  /\ state = IDLE /\ Len(fedBottom) = 40 =>
       bottomSeries = SeriesOf(SubSeq(fedBottom, 11, 40))

\* C17 witness: 40 triples have been pushed while the machine stayed in IDLE;
\* the bottom-phase history holds 30 and its neighbours differ.
C17_FortyPushedInIdle ==
  /\ state = IDLE
  /\ Len(fedBottom) = 40
  /\ framesInState = 40
  /\ Len(bottomSeries.rot) = 30
  /\ bottomSeries.rot[1] # bottomSeries.rot[2]
  /\ bottomSeries.rot[30] = fedBottom[40].rot

\* a history after one more triple: appended, the oldest dropped past 30
C18_With(series, in) ==
  [knee |-> LastN(Append(series.knee, in.knee), 30),
   torso |-> LastN(Append(series.torso, in.torso), 30),
   rot |-> LastN(Append(series.rot, in.rot), 30)]

\* C18: an update call that starts in IDLE or BOTTOM appends its triple to
\* the bottom-phase history and its append leaves the top-phase history
\* untouched (the BOTTOM exit empties it); one that starts in TRANSITION or
\* TOP appends to the top-phase history and leaves the bottom-phase history
\* unchanged; one that starts in COOLDOWN appends to neither (the return to
\* IDLE empties both).
C18_AppendByPhase ==
  [][LET in == Get(arg')
     IN  /\ state \in {IDLE, BOTTOM} =>
              /\ bottomSeries' = C18_With(bottomSeries, in)
              /\ topSeries' = IF state = BOTTOM /\ state' = TRANSITION
                               THEN EmptySeries ELSE topSeries
         /\ state \in {TRANSITION, TOP} =>
              /\ topSeries' = C18_With(topSeries, in)
              /\ bottomSeries' = bottomSeries
         /\ state = COOLDOWN =>
              /\ bottomSeries' = IF state' = IDLE THEN EmptySeries
                                  ELSE bottomSeries
              /\ topSeries' = IF state' = IDLE THEN EmptySeries
                               ELSE topSeries]_vars

\* C18 witness: a call in COOLDOWN has left both histories as they were,
\* each full, the bottom one of IDLE and BOTTOM frames and the top one of
\* TRANSITION and TOP frames.
C18_CooldownKeepsFullHistories ==
  /\ state = COOLDOWN
  /\ age >= 1
  /\ Len(fedBottom) > 30
  /\ Len(fedTop) > 30
  /\ bottomSeries.knee[30] = 110
  /\ topSeries.knee[1] = 110
  /\ topSeries.knee[30] = 130


\* C19: after any sequence of processFrame calls since construction or the
\* last reset, getTurnResults returns exactly the non-empty values that
\* processFrame returned, in the order returned; processFrame returns the
\* result it appended, and returns nothing and appends nothing on a frame
\* in which the state machine produced no result.
C19_ResultsAreTheReturns ==
  /\ getTurnResults(Analyzer) = returned
  /\ op = "processFrame" => frameRet = result
  /\ op = "processFrame" /\ IsSome(frameRet) =>
       /\ Len(turnResults) >= 1
       /\ turnResults[Len(turnResults)] = Get(frameRet)

\* C19 witness: a processFrame call in COOLDOWN has returned nothing, after
\* an earlier call returned the one result that getTurnResults holds.
C19_OneResultKept ==
  /\ op = "processFrame"
  /\ state = COOLDOWN
  /\ age >= 1
  /\ frameRet = None
  /\ Len(getTurnResults(Analyzer)) = 1
  /\ Len(returned) = 1

\* C20: after reset, whatever processFrame calls came before and whatever
\* state the machine was in, getCurrentState returns the IDLE label and
\* getTurnResults returns an empty list.
C20_ResetGivesIdleAndNoResults ==
  op = "reset" =>
    /\ getCurrentState(Analyzer) = "Idle: looking for Bottom Turn"
    /\ getTurnResults(Analyzer) = << >>

\* C20 witness: reset has been called in COOLDOWN with one result accumulated.
C20_ResetInCooldown ==
  /\ op = "reset"
  /\ resetFrom = Some([state |-> COOLDOWN, results |-> 1])


\* C21: an analyzer that processed any frames and was then reset gives, on
\* every frame sequence fed to it from then on, the same per-frame return
\* values, state labels and accumulated results as a newly constructed
\* analyzer fed the same sequence; no smoothing state, frame counter,
\* previous knee, snapshot, stored score or history survives the reset.
C21_ResetIsLikeNew ==
  /\ frameRet = twin.ret
  /\ getCurrentState(Analyzer) = getCurrentState(twin.an)
  /\ getTurnResults(Analyzer) = getTurnResults(twin.an)
  /\ Analyzer = twin.an

\* C21 witness: an analyzer reset in BOTTOM, after its pose had moved, has
\* since then returned a result, as has its newly constructed twin.
C21_ResultAfterReset ==
  /\ op = "processFrame"
  /\ resetFrom = Some([state |-> BOTTOM, results |-> 0])
  /\ changes = MaxMoves
  /\ IsSome(frameRet)
  /\ twin.ret = frameRet
  /\ Len(twin.an.turnResults) = 1

\* C22: the smoothing filter returns its first input unmodified, its output
\* after any inputs lies between the least and the greatest input so far, and
\* for a stream that is constantly V its output is V on every call.
C22_WithinInputsAndConstantExact ==
  \A n \in 1..Len(emaOut) :
    /\ n = 1 => emaOut[n] = emaIn[n]
    /\ \E i \in 1..n : Leq(emaIn[i], emaOut[n])
    /\ \E i \in 1..n : Leq(emaOut[n], emaIn[i])
    /\ (\A i \in 1..n : emaIn[i] = emaIn[1]) => emaOut[n] = emaIn[1]

\* The knee test of the BOTTOM exit on the n-th frame of a stream: the
\* smoothed knee of the frame against the smoothed knee of the frame before.
C29_Extending(n) == ExtendingDouble(emaOut[n - 1], emaOut[n])

\* the rounding allowed for: 2^-36 of a degree
C29_Slack == [m |-> <<1>>, e |-> -36]

C23_MissingLandmarkDefaults ==
  op = "processFrame" =>
    LET names == Get(pose).keypoints.names
        raw == Get(pose).raw
    IN  /\ frameRet = result
        /\ calls = 1 => arg = Some(raw)
        /\ (\E name \in LegNames : name \notin names) => raw.knee = 90
        /\ (\E name \in TrunkNames : name \notin names)
             => raw.torso = 0 /\ raw.rot = 0

\* C23 witness: in BOTTOM a pose without the right shoulder was processed, and
\* the smoothed torso lean and rotation went a tenth of the way to 0.
C23_ShoulderLostInBottom ==
  /\ op = "processFrame"
  /\ state = BOTTOM
  /\ calls > 1
  /\ "right_shoulder" \notin Get(pose).keypoints.names
  /\ arg = Some(Triple(90, 36, 18))

\* C25: in every reachable state the snapshot is absent exactly when the
\* state is IDLE and the stored bottom score is present exactly when the state
\* is TRANSITION, TOP or COOLDOWN; so an emitted result never carries the
\* fallbacks of the TOP exit: its extension was tested against a snapshot
\* knee, and its bottom score, detail and snapshot are the stored ones.
C25_PresenceByState ==
  /\ bottomSnapshot = None <=> state = IDLE
  /\ IsSome(btScore) <=> state \in {TRANSITION, TOP, COOLDOWN}
  /\ IsSome(result) =>
       /\ IsSome(KneeBt(bottomSnapshot))
       /\ Get(arg).knee - Get(KneeBt(bottomSnapshot)) >= 5
       /\ Get(result).bottom_turn.score = Get(btScore).score
       /\ Get(result).bottom_turn.detail = Some(Get(btScore).detail)
       /\ Get(result).bottom_turn.snapshot = Get(bottomSnapshot)

\* C25 witness: the machine is back in IDLE after a result, with neither a
\* snapshot nor a stored bottom score.
C25_ClearedAfterResult ==
  /\ state = IDLE
  /\ Len(emitAt) = 1
  /\ bottomSnapshot = None
  /\ btScore = None

\* C28: whenever a snapshot exists its knee lies in [70, 100]; so every
\* emitted result has 3 compression points and a bottom_turn.score of at
\* least 3, and a top_turn.score of at least 4: at least 1 for extension, 1
\* for an upright torso and 2 for rotation.
C28_SnapshotKneeInBand ==
  /\ IsSome(bottomSnapshot) =>
       /\ BT_KNEE_MIN <= Get(bottomSnapshot).knee
       /\ Get(bottomSnapshot).knee <= BT_KNEE_MAX
  /\ IsSome(result) =>
       LET bt == Get(result).bottom_turn
           tt == Get(result).top_turn
       IN  /\ bt.detail # None
           /\ Get(bt.detail).compression[1] = 3
           /\ bt.score >= 3
           /\ tt.detail.extension_delta_vs_bottom[1] >= 1
           /\ tt.detail.upright_torso[1] >= 1
           /\ tt.detail.rotation[1] >= 2
           /\ tt.score >= 4

\* C28 witness: a result whose snapshot knee is on the edge of the band.
C28_ResultWithEdgeKnee ==
  /\ IsSome(result)
  /\ Get(result).bottom_turn.snapshot.knee \in {BT_KNEE_MIN, BT_KNEE_MAX}
  /\ Get(Get(result).bottom_turn.detail).compression[1] = 3

\* C26: a machine that is new emits nothing in its first 14 update calls, and
\* two consecutive emissions are at least 27 calls apart.
C26_EmissionPace ==
  \A i \in 1..Len(emitAt) :
    IF i = 1
    THEN emitAt[i] >= 1 + (MIN_DET_FRAMES - 1) + TRANSITION_FRAMES + MIN_DET_FRAMES
         /\ emitAt[i] >= 15
    ELSE emitAt[i] - emitAt[i - 1]
           >= COOLDOWN_FRAMES + 1 + (MIN_DET_FRAMES - 1) + TRANSITION_FRAMES
                + MIN_DET_FRAMES
         /\ emitAt[i] - emitAt[i - 1] >= 27

\* C26 witness: the first result came from the 15th call and the second from
\* the 42nd.
C26_FastestTwoTurns == emitAt = <<15, 42>>

\* the smaller of two numbers
C30_Min(a, b) == IF a <= b THEN a ELSE b

\* C30: in an emitted result bottom_turn.frames is the number of update calls
\* made in IDLE or BOTTOM since the machine last came to IDLE (or was made),
\* up to the BOTTOM exit frame, and top_turn.frames is 3 plus the number of
\* update calls made in TOP, each capped at 30; so the bottom frames lie
\* between 6 and 30 and the top frames between 9 and 30.
C30_FrameCounts ==
  [][IsSome(result') =>
       LET r == Get(result')
       IN  /\ state = TOP
           /\ r.bottom_turn.frames = C30_Min(SERIES_CAP, Len(fedBottom'))
           /\ r.top_turn.frames
                = C30_Min(SERIES_CAP, TRANSITION_FRAMES + age + 1)
           /\ r.bottom_turn.frames \in MIN_DET_FRAMES..SERIES_CAP
           /\ r.top_turn.frames
                \in (TRANSITION_FRAMES + MIN_DET_FRAMES)..SERIES_CAP]_vars

\* C30 witness: a result after more than 30 calls in IDLE and BOTTOM and more
\* than 30 in TRANSITION and TOP, with both frame counts 30.
C30_BothCountsCapped ==
  /\ IsSome(result)
  /\ Len(fedBottom) > SERIES_CAP
  /\ Len(fedTop) > SERIES_CAP
  /\ Get(result).bottom_turn.frames = SERIES_CAP
  /\ Get(result).top_turn.frames = SERIES_CAP

\* C24: no analyzer state is shared: a step of one run (a reset, a frame)
\* changes neither the state nor the accumulated results that another run,
\* which is in its loop, observes.
C24_RunsDoNotDisturb ==
  [][\A r \in RunIds :
       (runs.by[r].pc = "loop" /\ runs'.last # r) =>
         /\ getCurrentState(Analyzer)' = getCurrentState(Analyzer)
         /\ getTurnResults(Analyzer)' = getTurnResults(Analyzer)]_vars

\* C27: a run that no other run interleaves with passes at most 10 frames to
\* processFrame after its reset, every one of which returns nothing, and its
\* list of detected turns is empty.
C27_LoneRunDetectsNothing ==
  \A r \in RunIds :
    runs.by[r].alone =>
      /\ runs.by[r].i <= FramesToProcess
      /\ runs.by[r].detectedTurns = << >>
      /\ runs.by[r].pc = "loop" =>
           /\ calls <= runs.by[r].i
           /\ frameRet = None
           /\ getTurnResults(Analyzer) = << >>
      /\ runs.by[r].pc = "done" => runs.by[r].turns = Some(<< >>)

\* C27 witness: the upload view's run, alone, has ended after ten frames that
\* took the machine to TOP.
C27_LoneRunReachedTop ==
  /\ runs.by[1].pc = "done"
  /\ runs.by[1].alone
  /\ runs.by[2].pc = "none"
  /\ runs.by[1].i = FramesToProcess
  /\ calls = FramesToProcess
  /\ state = TOP
====
